---- MODULE Spec2Model ----
(***************************************************************************)
(* ModelLRM (openlrm/models/modeling_lrm.py): construction, the plane      *)
(* generator (forward_planes / forward_transformer / reshape_upsample),    *)
(* the dual-view flip and fusion, and the top-level forward.               *)
(*                                                                         *)
(* A tensor is a record [ok, dense, shape, data]; ok = FALSE is an         *)
(* operation that raised.  A dense tensor holds the row-major (contiguous) *)
(* sequence of its elements; elements are symbolic: [op, img, at] names    *)
(* the layer that produced the value, the input image it descends from and *)
(* its index in that layer's output.  The output of a fusion layer is not  *)
(* dense: its values are opaque and data holds the one name of the layer.  *)
(***************************************************************************)
EXTENDS Integers, Sequences, FiniteSets, TLC

\* ------------------------------------------------------------------ bounds
MaxN == 2
MaxLowRes == 2
MaxDim == 2
TransformerDim == 2
NumViews == 1

\* -------------------------------------------------------- tensor machinery
Bad == [ok |-> FALSE, dense |-> FALSE, shape |-> <<>>, data |-> <<>>]

RECURSIVE Prod(_)
Prod(s) == IF s = <<>> THEN 1 ELSE Head(s) * Prod(Tail(s))

\* row-major strides of a shape
Strides(shape) == [j \in 1..Len(shape) |-> Prod(SubSeq(shape, j + 1, Len(shape)))]

RECURSIVE Dot(_, _, _)
Dot(st, idx, j) == IF j > Len(st) THEN 0 ELSE idx[j] * st[j] + Dot(st, idx, j + 1)

\* multi-index (0-based components) of the k-th (1-based) element
UnflatS(shape, st, k) == [j \in 1..Len(shape) |-> ((k - 1) \div st[j]) % shape[j]]

Unflat(shape, k) == UnflatS(shape, Strides(shape), k)

\* position (1-based) in the row-major data of the element at multi-index idx
Flat(shape, idx) == Dot(Strides(shape), idx, 1) + 1

At(t, idx) == t.data[Flat(t.shape, idx)]

NegOnes(shp) == {j \in 1..Len(shp) : shp[j] = -1}

Known(shp) == Prod([j \in 1..Len(shp) |-> IF shp[j] = -1 THEN 1 ELSE shp[j]])

\* Tensor.view / Tensor.reshape of a contiguous tensor: same data, new shape;
\* one -1 is inferred; raises when the element counts do not agree.
view(t, shp) ==
    IF ~t.ok THEN Bad
    ELSE LET n == Prod(t.shape)
             k == Known(shp)
         IN  IF Cardinality(NegOnes(shp)) > 1 THEN Bad
             ELSE IF NegOnes(shp) = {}
                  THEN IF k = n THEN [t EXCEPT !.shape = shp] ELSE Bad
                  ELSE IF k > 0 /\ n % k = 0
                       THEN [t EXCEPT !.shape =
                               [j \in 1..Len(shp) |->
                                  IF shp[j] = -1 THEN n \div k ELSE shp[j]]]
                       ELSE Bad

PosOf(names, a) == CHOOSE j \in 1..Len(names) : names[j] = a

\* torch.einsum with a pure axis permutation, followed by .contiguous():
\* ins and outs are the subscript letters of the operand and of the result.
einsum(ins, outs, t) ==
    IF ~t.ok \/ Len(ins) # Len(t.shape) THEN Bad
    ELSE LET src == [j \in 1..Len(outs) |-> PosOf(ins, outs[j])]
             dst == [j \in 1..Len(ins) |-> PosOf(outs, ins[j])]
             shp == [j \in 1..Len(outs) |-> t.shape[src[j]]]
             so == Strides(shp)
             ts == Strides(t.shape)
             elem(o) == t.data[Dot(ts, [j \in 1..Len(ins) |-> o[dst[j]]], 1) + 1]
         IN  IF ~t.dense THEN [t EXCEPT !.shape = shp]
             ELSE [ok |-> TRUE, dense |-> TRUE, shape |-> shp,
                   data |-> [k \in 1..Prod(shp) |-> elem(UnflatS(shp, so, k))]]

\* Tensor.permute(0, 2, 1).contiguous() on a 3-d tensor
permute021(t) == einsum(<<"b", "c", "l">>, <<"b", "l", "c">>, t)

\* torch.flip(x, dims); dims are negative axis numbers
flip(t, dims) ==
    IF ~t.ok THEN Bad
    ELSE LET r == Len(t.shape)
             ax == {r + 1 + d : d \in dims}
             ts == Strides(t.shape)
             elem(o) == t.data[Dot(ts, [j \in 1..r |->
                           IF j \in ax THEN t.shape[j] - 1 - o[j] ELSE o[j]], 1) + 1]
         IN  [t EXCEPT !.data =
                [k \in 1..Prod(t.shape) |-> elem(UnflatS(t.shape, ts, k))]]

\* x[:, i, :, :, :] of a 5-d tensor
select1(t, i) ==
    IF ~t.ok THEN Bad
    ELSE LET shp == <<t.shape[1], t.shape[3], t.shape[4], t.shape[5]>>
             so == Strides(shp)
             ts == Strides(t.shape)
             elem(o) == t.data[Dot(ts, <<o[1], i, o[2], o[3], o[4]>>, 1) + 1]
         IN  [ok |-> TRUE, dense |-> TRUE, shape |-> shp,
              data |-> [k \in 1..Prod(shp) |-> elem(UnflatS(shp, so, k))]]

\* x[:, i, :, :, :] = v
assign1(t, i, v) ==
    IF ~t.ok \/ ~v.ok THEN Bad
    ELSE LET vs == Strides(v.shape)
             ts == Strides(t.shape)
             elem(o) == IF o[2] = i
                        THEN v.data[Dot(vs, <<o[1], o[3], o[4], o[5]>>, 1) + 1]
                        ELSE t.data[Dot(ts, o, 1) + 1]
         IN  [t EXCEPT !.data =
                [k \in 1..Prod(t.shape) |-> elem(UnflatS(t.shape, ts, k))]]

\* torch.cat((a, b), dim=2) of two 5-d tensors
cat2(a, b) ==
    IF ~a.ok \/ ~b.ok THEN Bad
    ELSE IF \E j \in {1, 2, 4, 5} : a.shape[j] # b.shape[j] THEN Bad
    ELSE LET as == Strides(a.shape)
             bs == Strides(b.shape)
             shp == [a.shape EXCEPT ![3] = a.shape[3] + b.shape[3]]
             so == Strides(shp)
             elem(o) == IF o[3] < a.shape[3]
                        THEN a.data[Dot(as, o, 1) + 1]
                        ELSE b.data[Dot(bs, [o EXCEPT ![3] = o[3] - a.shape[3]], 1) + 1]
         IN  [ok |-> TRUE, dense |-> TRUE, shape |-> shp,
              data |-> [k \in 1..Prod(shp) |-> elem(UnflatS(shp, so, k))]]

\* the output of a fusion layer: its values are opaque
Learned(op, shp) ==
    [ok |-> TRUE, dense |-> FALSE, shape |-> shp,
     data |-> << [op |-> op, img |-> "", at |-> <<>>] >>]

\* nn.Conv2d(cin, cout, kernel_size=(ks, ks), stride=(st, st), padding=pd)
Conv2d(t, cin, cout, ks, st, pd) ==
    IF ~t.ok \/ Len(t.shape) # 4 THEN Bad
    ELSE IF t.shape[2] # cin THEN Bad
    ELSE IF t.shape[3] + 2 * pd < ks \/ t.shape[4] + 2 * pd < ks THEN Bad
    ELSE Learned("conv", <<t.shape[1], cout,
                           (t.shape[3] + 2 * pd - ks) \div st + 1,
                           (t.shape[4] + 2 * pd - ks) \div st + 1>>)

\* nn.LayerNorm(normalized_shape): the trailing axes must equal normalized_shape
LayerNorm(t, nshape) ==
    IF ~t.ok \/ Len(t.shape) < Len(nshape) THEN Bad
    ELSE IF SubSeq(t.shape, Len(t.shape) - Len(nshape) + 1, Len(t.shape)) # nshape
         THEN Bad
         ELSE Learned("layernorm", t.shape)

GELU(t) == IF ~t.ok THEN Bad ELSE Learned("gelu", t.shape)

\* ------------------------------------------------------------ construction
ModuleNames == {"encoder", "camera_embedder", "pos_embed", "transformer",
                "upsampler", "synthesizer"}

\* model_lora_rank: 0 is the default, a positive rank selects the LoRA decoder
LoraRanks == {0, 4}

\* default of the encoder_feat_dim parameter
EncoderFeatDim == 768
CameraEmbedDim == 16

\* constructor arguments; the remaining ones do not reach this file's logic
Configs ==
    {c \in [encoder_freeze : BOOLEAN,
            model_lora_rank : LoraRanks,
            conv_fuse : BOOLEAN,
            swin_ca_fuse : BOOLEAN,
            triplane_low_res : {1, MaxLowRes},
            triplane_high_res : 1..(2 * MaxLowRes + 1),
            triplane_dim : {1, MaxDim},
            transformer_dim : {TransformerDim},
            ca_dim : 1..(MaxDim + 1),
            encoder_feat_dim : {EncoderFeatDim},
            camera_embed_dim : {CameraEmbedDim}] :
        \* encoder_freeze does not reach forward: it varies on one geometry;
        \* triplane_high_res is read by the conv stack only, ca_dim by the
        \* cross-attention layer only
        /\ c.encoder_freeze \/ (c.triplane_low_res = 1 /\ c.triplane_dim = 1)
        /\ c.triplane_high_res \in {2 * c.triplane_low_res} \cup
              (IF c.conv_fuse THEN {2 * c.triplane_low_res + 1} ELSE {})
        /\ c.ca_dim \in {c.triplane_dim} \cup
              (IF c.swin_ca_fuse THEN {c.triplane_dim + 1} ELSE {})}

\* freeze_modules: requires_grad = False on every parameter of the named modules
freeze_modules(frozen, encoder, camera_embedder, pos_embed, transformer, upsampler, synthesizer) ==
    LET sel == [encoder |-> encoder, camera_embedder |-> camera_embedder,
                pos_embed |-> pos_embed, transformer |-> transformer,
                upsampler |-> upsampler, synthesizer |-> synthesizer]
    IN  [n \in ModuleNames |-> IF sel[n] THEN TRUE ELSE frozen[n]]

NoLayer == [kind |-> "", cin |-> 0, cout |-> 0, nshape |-> <<>>]

ConvLayer(cin, cout) == [NoLayer EXCEPT !.kind = "Conv2d", !.cin = cin, !.cout = cout]

NormLayer(nshape) == [NoLayer EXCEPT !.kind = "LayerNorm", !.nshape = nshape]

GeluLayer == [NoLayer EXCEPT !.kind = "GELU"]

\* mutant: the last convolution keeps 2*triplane_dim channels
front_back_conv_m(c) ==
    LET D == c.triplane_dim
        R == c.triplane_high_res
    IN  << ConvLayer(D * 2, D * 4), NormLayer(<<D * 4, R, R>>), GeluLayer,
           ConvLayer(D * 4, D * 4), NormLayer(<<D * 4, R, R>>), GeluLayer,
           ConvLayer(D * 4, D * 2) >>

\* the nn.ModuleList built for convolutional fusion
front_back_conv(c) ==
    LET D == c.triplane_dim
        R == c.triplane_high_res
    IN  << ConvLayer(D * 2, D * 4), NormLayer(<<D * 4, R, R>>), GeluLayer,
           ConvLayer(D * 4, D * 4), NormLayer(<<D * 4, R, R>>), GeluLayer,
           ConvLayer(D * 4, D) >>

\* freeze state of the submodules as the constructors above the fusion block
\* leave it: the encoder wrapper honours its freeze flag, and
\* lora.mark_only_lora_as_trainable freezes the transformer's base weights
BaseFrozen(c) ==
    [n \in ModuleNames |->
        CASE n = "encoder" -> c.encoder_freeze
          [] n = "transformer" -> c.model_lora_rank > 0
          [] OTHER -> FALSE]

\* ModelLRM.__init__: the object it leaves, or the ValueError it raises
ModelLRM_init(c) ==
    LET base == [ok |-> TRUE, err |-> "",
                 encoder_feat_dim |-> c.encoder_feat_dim,
                 camera_embed_dim |-> c.camera_embed_dim,
                 triplane_low_res |-> c.triplane_low_res,
                 triplane_high_res |-> c.triplane_high_res,
                 triplane_dim |-> c.triplane_dim,
                 conv_fuse |-> c.conv_fuse,
                 swin_ca_fuse |-> c.swin_ca_fuse,
                 transformer_dim |-> c.transformer_dim,
                 model_lora_rank |-> c.model_lora_rank,
                 ca_dim |-> c.ca_dim,
                 modules |-> ModuleNames,
                 front_back_conv |-> <<>>,
                 frozen |-> BaseFrozen(c)]
        fz == freeze_modules(base.frozen, TRUE, TRUE, FALSE, FALSE, FALSE, FALSE)
    IN  IF c.model_lora_rank > 0
        THEN IF c.conv_fuse
             THEN [base EXCEPT !.modules = @ \cup {"front_back_conv"},
                               !.front_back_conv = front_back_conv(c),
                               !.frozen = fz]
             ELSE IF c.swin_ca_fuse
                  THEN [base EXCEPT !.modules = @ \cup {"swin_cross_attention"},
                                    !.frozen = fz]
                  ELSE [base EXCEPT !.ok = FALSE, !.err = "ValueError"]
        ELSE base

\* --------------------------------------------------------- plane generator
Call(fn, args) == [fn |-> fn, args |-> args]

\* number of feature tokens the encoder emits per image
EncTokens == 1

\* Feature Encoder: (N, C, H, W) -> (N, L, feat); feat is the backbone's width
encoder(imgN, feat) == <<imgN, EncTokens, feat>>

\* Camera Embedder: (N, raw) -> (N, embed)
camera_embedder(camN, embed) == <<camN, embed>>

\* Triplane Decoder: the output has the shape of the token sequence x
transformer(img, xshape) ==
    LET st == Strides(xshape)
        elem(o) == [op |-> "transformer", img |-> img, at |-> o]
    IN  [ok |-> TRUE, dense |-> TRUE, shape |-> xshape,
         data |-> [k \in 1..Prod(xshape) |-> elem(UnflatS(xshape, st, k))]]

\* pos_embed: Parameter of shape (1, 3*triplane_low_res**2, transformer_dim)
pos_embed_shape(m) ==
    <<1, 3 * m.triplane_low_res * m.triplane_low_res, m.transformer_dim>>

\* mutant: the batch assertion is missing
forward_transformer_m(m, img, image_feats, camera_embeddings) ==
    LET N == image_feats[1]
        p == pos_embed_shape(m)
    IN  transformer(img, <<N * p[1], p[2], p[3]>>)

\* forward_transformer: Bad when the batch assertion fails
forward_transformer(m, img, image_feats, camera_embeddings) ==
    IF image_feats[1] # camera_embeddings[1] THEN Bad
    ELSE LET N == image_feats[1]
             p == pos_embed_shape(m)
         IN  transformer(img, <<N * p[1], p[2], p[3]>>)

\* nn.ConvTranspose2d(transformer_dim, triplane_dim, kernel_size=2, stride=2,
\* padding=0): every input grid b yields the output grid b
upsampler(m, x) ==
    IF ~x.ok \/ Len(x.shape) # 4 THEN Bad
    ELSE IF x.shape[2] # m.transformer_dim THEN Bad
    ELSE LET xs == Strides(x.shape)
             shp == <<x.shape[1], m.triplane_dim,
                      (x.shape[3] - 1) * 2 + 2, (x.shape[4] - 1) * 2 + 2>>
             so == Strides(shp)
             elem(o) ==
                 [op |-> "upsampler",
                  img |-> x.data[Dot(xs, <<o[1], 0, o[3] \div 2, o[4] \div 2>>, 1) + 1].img,
                  at |-> o]
         IN  [ok |-> TRUE, dense |-> TRUE, shape |-> shp,
              data |-> [k \in 1..Prod(shp) |-> elem(UnflatS(shp, so, k))]]

\* mutant: the plane axis is not moved in front of the batch axis
stack_tokens_m(m, tokens) ==
    LET N == tokens.shape[1]
        H == m.triplane_low_res
        W == m.triplane_low_res
        x == view(tokens, <<N, 3, H, W, -1>>)
        y == einsum(<<"n", "i", "h", "w", "d">>, <<"n", "i", "d", "h", "w">>, x)
    IN  view(y, <<3 * N, -1, H, W>>)

\* reshape_upsample, up to the call of the upsampler: [3*N, D, H, W]
stack_tokens(m, tokens) ==
    LET N == tokens.shape[1]
        H == m.triplane_low_res
        W == m.triplane_low_res
        x == view(tokens, <<N, 3, H, W, -1>>)
        y == einsum(<<"n", "i", "h", "w", "d">>, <<"i", "n", "d", "h", "w">>, x)
    IN  view(y, <<3 * N, -1, H, W>>)

\* mutant: the final einsum back to [N, 3, ...] is missing
unstack_planes_m(x, N) ==
    IF ~x.ok THEN Bad
    ELSE view(x, <<3, N, x.shape[2], x.shape[3], x.shape[4]>>)

\* reshape_upsample, after the call of the upsampler: [N, 3, D', H', W']
unstack_planes(x, N) ==
    IF ~x.ok THEN Bad
    ELSE LET y == view(x, <<3, N, x.shape[2], x.shape[3], x.shape[4]>>)
         IN  einsum(<<"i", "n", "d", "h", "w">>, <<"n", "i", "d", "h", "w">>, y)

reshape_upsample(m, tokens) ==
    unstack_planes(upsampler(m, stack_tokens(m, tokens)), tokens.shape[1])

\* forward_planes(image, camera): the submodules it invoked, its locals
\* (the shapes of image_feats and camera_embeddings, the grid fed to the
\* upsampler), and the planes it returned or the error it raised
forward_planes(m, img, imgN, camN, feat, embed) ==
    LET N == imgN
        image_feats == encoder(imgN, feat)
        camera_embeddings == camera_embedder(camN, embed)
        tokens == forward_transformer(m, img, image_feats, camera_embeddings)
        \* x is the local of reshape_upsample handed to self.upsampler
        x == stack_tokens(m, tokens)
        planes == reshape_upsample(m, tokens)
        c0 == << Call("forward_planes", <<img, "source_camera">>) >>
        c1 == Append(c0, Call("encoder", <<img>>))
        c2 == Append(c1, Call("camera_embedder", <<"source_camera">>))
        c3 == Append(c2, Call("transformer", <<img, "source_camera">>))
        c4 == Append(c3, Call("upsampler", <<img>>))
        out(e, cs, ce, u, p) ==
            [err |-> e, calls |-> cs, image_feats |-> image_feats,
             camera_embeddings |-> ce, up_in |-> u, planes |-> p]
        fail(e, cs) == out(e, cs, camera_embeddings, Bad, Bad)
    IN  IF image_feats[3] # m.encoder_feat_dim THEN out("AssertionError", c1, <<>>, Bad, Bad)
        ELSE IF camera_embeddings[2] # m.camera_embed_dim THEN fail("AssertionError", c2)
        ELSE IF ~tokens.ok THEN fail("AssertionError", c2)
        ELSE IF ~x.ok THEN fail("RuntimeError", c3)
        ELSE IF ~planes.ok THEN fail("RuntimeError", c4)
        ELSE IF planes.shape[1] # N \/ planes.shape[2] # 3 THEN fail("AssertionError", c4)
        ELSE out("", c4, camera_embeddings, x, planes)

\* ---------------------------------------------------------- dual-view fuser
\* mutant: every plane is flipped on both axes
flip_dims_m(i) == {-2, -1}

\* axes torch.flip reverses on plane i of the back triplane (0 XY, 1 XZ, 2 YZ)
flip_dims(i) == CASE i = 0 -> {-2, -1} [] i = 1 -> {-1} [] OTHER -> {-2}

\* back_planes[:, i, :, :, :] = torch.flip(back_planes[:, i, :, :, :], dims)
flip_plane(t, i) == assign1(t, i, flip(select1(t, i), flip_dims(i)))

flip_back_planes(t) == flip_plane(flip_plane(flip_plane(t, 0), 1), 2)

apply_layer(layer, t) ==
    CASE layer.kind = "Conv2d" -> Conv2d(t, layer.cin, layer.cout, 3, 1, 1)
      [] layer.kind = "LayerNorm" -> LayerNorm(t, layer.nshape)
      [] OTHER -> GELU(t)

\* for layer in self.front_back_conv: planes = layer(planes)
\* the tensors after each layer, Bad from the first layer that raises
RECURSIVE apply_layers(_, _)
apply_layers(layers, t) ==
    IF layers = <<>> THEN <<>>
    ELSE LET u == apply_layer(Head(layers), t)
         IN  <<u>> \o apply_layers(Tail(layers), u)

\* CrossAttentionLayer(dim=ca_dim, ...)(front, back, H, W)[0]: fused tokens
\* of the shape of the front tokens; its projections are built for ca_dim
swin_cross_attention(m, front, back, height, width) ==
    IF ~front.ok \/ ~back.ok THEN Bad
    ELSE IF front.shape[3] # m.ca_dim \/ back.shape[3] # m.ca_dim THEN Bad
    ELSE IF front.shape # back.shape \/ front.shape[2] # height * width THEN Bad
    ELSE Learned("swin_cross_attention", front.shape)

ShapesOf(ts) == [j \in 1..Len(ts) |-> ts[j].shape]

\* the convolutional branch of forward
conv_fusion(m, front_planes, back_planes) ==
    LET bs == front_planes.shape[1]
        num_planes == front_planes.shape[2]
        channels == front_planes.shape[3]
        height == front_planes.shape[4]
        width == front_planes.shape[5]
        p1 == cat2(front_planes, back_planes)
        p2 == view(p1, <<-1, channels * 2, height, width>>)
        ls == apply_layers(m.front_back_conv, p2)
        p3 == IF ls = <<>> THEN p2 ELSE ls[Len(ls)]
        p4 == view(p3, <<bs, num_planes, -1, height, width>>)
        call == << Call("front_back_conv", <<"front_planes", "back_planes">>) >>
        out(e, cs, ts, p) ==
            [err |-> e, calls |-> cs, stages |-> ShapesOf(ts), planes |-> p,
             front_planes |-> front_planes, back_planes |-> back_planes,
             applied |-> IF cs = <<>> THEN {} ELSE {"conv"}]
    IN  IF ~p1.ok THEN out("RuntimeError", <<>>, <<>>, Bad)
        ELSE IF ~p2.ok THEN out("RuntimeError", <<>>, <<p1>>, Bad)
        ELSE IF "front_back_conv" \notin m.modules
             THEN out("AttributeError", <<>>, <<p1, p2>>, Bad)
        ELSE IF ~p3.ok THEN out("RuntimeError", call, <<p1, p2>>, Bad)
        ELSE IF ~p4.ok THEN out("RuntimeError", call, <<p1, p2>> \o ls, Bad)
        ELSE out("", call, <<p1, p2>> \o ls \o <<p4>>, p4)

\* the cross-attention branch of forward; it rebinds front_planes and
\* back_planes to their token sequences
swin_fusion(m, front_planes, back_planes) ==
    LET bs == front_planes.shape[1]
        num_planes == front_planes.shape[2]
        channels == front_planes.shape[3]
        height == front_planes.shape[4]
        width == front_planes.shape[5]
        f == permute021(view(front_planes, <<bs * num_planes, channels, height * width>>))
        b == permute021(view(back_planes, <<bs * num_planes, channels, height * width>>))
        a == swin_cross_attention(m, f, b, height, width)
        p == view(permute021(a), <<bs, num_planes, channels, height, width>>)
        call == << Call("swin_cross_attention", <<"front_planes", "back_planes">>) >>
        out(e, cs, ts, q) ==
            [err |-> e, calls |-> cs, stages |-> ShapesOf(ts), planes |-> q,
             front_planes |-> IF f.ok THEN f ELSE front_planes,
             back_planes |-> IF f.ok /\ b.ok THEN b ELSE back_planes,
             applied |-> IF cs = <<>> THEN {} ELSE {"swin"}]
    IN  IF ~f.ok THEN out("RuntimeError", <<>>, <<>>, Bad)
        ELSE IF ~b.ok THEN out("RuntimeError", <<>>, <<f>>, Bad)
        ELSE IF "swin_cross_attention" \notin m.modules
             THEN out("AttributeError", <<>>, <<f, b>>, Bad)
        ELSE IF ~a.ok THEN out("RuntimeError", call, <<f, b>>, Bad)
        ELSE IF ~p.ok THEN out("RuntimeError", call, <<f, b, a>>, Bad)
        ELSE out("", call, <<f, b, a, p>>, p)

\* if self.conv_fuse: ... elif self.swin_ca_fuse: ...   (there is no else:
\* with neither flag set the name planes stays unbound)
fuse(m, front_planes, back_planes) ==
    IF m.conv_fuse THEN conv_fusion(m, front_planes, back_planes)
    ELSE IF m.swin_ca_fuse THEN swin_fusion(m, front_planes, back_planes)
    ELSE [err |-> "", calls |-> <<>>, stages |-> <<>>, planes |-> Bad,
          front_planes |-> front_planes, back_planes |-> back_planes, applied |-> {}]

\* ------------------------------------------------------------ model facade
\* mutant: the render_bg_colors assertion is missing
batch_asserts_m(i) ==
    /\ i.image = i.source_camera
    /\ i.image = i.render_cameras
    /\ i.image = i.render_anchors

\* the four assertions that open forward
batch_asserts(i) ==
    /\ i.image = i.source_camera
    /\ i.image = i.render_cameras
    /\ i.image = i.render_anchors
    /\ i.image = i.render_bg_colors

\* mutant: the second call is handed the front image again
dual_view_image_m(k) == "image"

\* the image handed to the k-th forward_planes call of the dual-view path
dual_view_image(k) == IF k = 1 THEN "image" ELSE "image_back"

\* TriplaneSynthesizer: images_rgb of shape (N, M, ...)
synthesizer(planes, i) == <<planes.shape[1], i.M>>

BatchSizes == {1, MaxN}

\* batch sizes of one forward call; image_back = 0 is image_back=None
Inputs ==
    {i \in [image : BatchSizes, source_camera : BatchSizes, render_cameras : BatchSizes,
            render_anchors : BatchSizes, render_bg_colors : BatchSizes,
            image_back : {0} \cup BatchSizes, M : {NumViews}] :
        Cardinality({f \in {"source_camera", "render_cameras", "render_anchors",
                            "render_bg_colors"} : i[f] # i.image}) <= 1}

NoInput == [image |-> 0, source_camera |-> 0, render_cameras |-> 0,
            render_anchors |-> 0, render_bg_colors |-> 0, image_back |-> 0, M |-> 0]

NoResult == [planes |-> Bad, images_rgb |-> <<>>]

VARIABLES model, pc, inp, front_planes, back_planes, planes, image_feats,
          camera_embeddings, up_in, stages, applied, calls, err, synth_in, result

vars == <<model, pc, inp, front_planes, back_planes, planes, image_feats,
          camera_embeddings, up_in, stages, applied, calls, err, synth_in, result>>

\* the locals of the last forward_planes call
fp_locals == <<image_feats, camera_embeddings, up_in>>

locals == <<front_planes, back_planes, planes, fp_locals, stages, applied, synth_in,
            result>>

Init ==
    /\ model \in {ModelLRM_init(c) : c \in Configs}
    /\ pc = "idle"
    /\ inp = NoInput
    /\ front_planes = Bad /\ back_planes = Bad /\ planes = Bad
    /\ image_feats = <<>> /\ camera_embeddings = <<>> /\ up_in = Bad
    /\ stages = <<>> /\ applied = {} /\ calls = <<>> /\ err = ""
    /\ synth_in = Bad /\ result = NoResult

Raise(e) == pc' = "error" /\ err' = e

\* forward is entered and its batch-size assertions run
forward_validate ==
    /\ pc = "idle" /\ model.ok
    /\ \E i \in Inputs :
         /\ inp' = i
         /\ IF batch_asserts(i)
            THEN pc' = "validated" /\ err' = ""
            ELSE Raise("AssertionError")
    /\ UNCHANGED <<model, calls, locals>>

\* widths the external encoder / camera embedder may emit
FeatDims == {model.encoder_feat_dim, model.encoder_feat_dim + 1}

EmbedDims == {model.camera_embed_dim, model.camera_embed_dim + 1}

\* planes = self.forward_planes(image, source_camera)
forward_single ==
    /\ pc = "validated" /\ inp.image_back = 0
    /\ \E feat \in FeatDims, embed \in EmbedDims :
         LET r == forward_planes(model, "image", inp.image, inp.source_camera, feat, embed)
         IN  /\ calls' = calls \o r.calls
             /\ image_feats' = r.image_feats
             /\ camera_embeddings' = r.camera_embeddings
             /\ up_in' = r.up_in
             /\ planes' = r.planes
             /\ IF r.err = "" THEN pc' = "planes_ready" /\ err' = "" ELSE Raise(r.err)
    /\ UNCHANGED <<model, inp, front_planes, back_planes, stages, applied, synth_in, result>>

\* front_planes = self.forward_planes(image, source_camera)
forward_front ==
    /\ pc = "validated" /\ inp.image_back # 0
    /\ \E feat \in FeatDims, embed \in EmbedDims :
         LET img == dual_view_image(1)
             r == forward_planes(model, img, inp[img], inp.source_camera, feat, embed)
         IN  /\ calls' = calls \o r.calls
             /\ image_feats' = r.image_feats
             /\ camera_embeddings' = r.camera_embeddings
             /\ up_in' = r.up_in
             /\ front_planes' = r.planes
             /\ IF r.err = "" THEN pc' = "front_done" /\ err' = "" ELSE Raise(r.err)
    /\ UNCHANGED <<model, inp, back_planes, planes, stages, applied, synth_in, result>>

\* back_planes = self.forward_planes(image_back, source_camera)
forward_back ==
    /\ pc = "front_done"
    /\ \E feat \in FeatDims, embed \in EmbedDims :
         LET img == dual_view_image(2)
             r == forward_planes(model, img, inp[img], inp.source_camera, feat, embed)
         IN  /\ calls' = calls \o r.calls
             /\ image_feats' = r.image_feats
             /\ camera_embeddings' = r.camera_embeddings
             /\ up_in' = r.up_in
             /\ back_planes' = r.planes
             /\ IF r.err = "" THEN pc' = "back_done" /\ err' = "" ELSE Raise(r.err)
    /\ UNCHANGED <<model, inp, front_planes, planes, stages, applied, synth_in, result>>

\* the three in-place flips of back_planes
forward_flip ==
    /\ pc = "back_done"
    /\ back_planes' = flip_back_planes(back_planes)
    /\ calls' = Append(calls, Call("flip", <<"back_planes">>))
    /\ pc' = "flipped"
    /\ UNCHANGED <<model, inp, front_planes, planes, fp_locals, stages, applied, err,
                   synth_in, result>>

\* the fusion branch
forward_fuse ==
    /\ pc = "flipped"
    /\ LET r == fuse(model, front_planes, back_planes)
       IN  /\ calls' = calls \o r.calls
           /\ stages' = r.stages
           /\ applied' = r.applied
           /\ planes' = r.planes
           /\ front_planes' = r.front_planes
           /\ back_planes' = r.back_planes
           /\ IF r.err = "" THEN pc' = "fused" /\ err' = "" ELSE Raise(r.err)
    /\ UNCHANGED <<model, inp, fp_locals, synth_in, result>>

\* render_results = self.synthesizer(planes, ...), its two assertions, return
forward_render ==
    /\ pc \in {"planes_ready", "fused"}
    /\ IF ~planes.ok
       THEN /\ Raise("UnboundLocalError")
            /\ UNCHANGED <<calls, synth_in, result>>
       ELSE LET rgb == synthesizer(planes, inp)
            IN  /\ calls' = Append(calls, Call("synthesizer", <<"planes">>))
                /\ synth_in' = planes
                /\ IF rgb[1] = inp.render_cameras /\ rgb[2] = inp.M
                   THEN /\ pc' = "returned" /\ err' = ""
                        /\ result' = [planes |-> planes, images_rgb |-> rgb]
                   ELSE /\ Raise("AssertionError")
                        /\ UNCHANGED result
    /\ UNCHANGED <<model, inp, front_planes, back_planes, planes, fp_locals, stages,
                   applied>>

\* the call is over (returned or raised); the caller may call forward again
forward_done ==
    /\ pc \in {"returned", "error"}
    /\ pc' = "idle"
    /\ inp' = NoInput
    /\ front_planes' = Bad /\ back_planes' = Bad /\ planes' = Bad
    /\ image_feats' = <<>> /\ camera_embeddings' = <<>> /\ up_in' = Bad
    /\ stages' = <<>> /\ applied' = {} /\ calls' = <<>> /\ err' = ""
    /\ synth_in' = Bad /\ result' = NoResult
    /\ UNCHANGED model

Next ==
    \/ forward_validate
    \/ forward_single
    \/ forward_front
    \/ forward_back
    \/ forward_flip
    \/ forward_fuse
    \/ forward_render
    \/ forward_done

Spec == Init /\ [][Next]_vars

\* ------------------------------------------------------------------ claims
OtherInputs == {"source_camera", "render_cameras", "render_anchors", "render_bg_colors"}

FPCall(img) == Call("forward_planes", <<img, "source_camera">>)

FPSubmodules == {"encoder", "camera_embedder", "transformer", "upsampler"}

FuseModules == {"front_back_conv", "swin_cross_attention"}

Fns(cs) == {cs[k].fn : k \in 1..Len(cs)}

\* forward_planes has just returned
FPDone == pc \in {"planes_ready", "front_done", "back_done"}

LastImg == IF pc = "back_done" THEN "image_back" ELSE "image"

LastPlanes ==
    CASE pc = "planes_ready" -> planes
      [] pc = "front_done" -> front_planes
      [] OTHER -> back_planes

\* what forward_planes returns for the call's arguments when no assertion fails
RawPlanes(img) ==
    forward_planes(model, img, inp[img], inp.source_camera,
                   model.encoder_feat_dim, model.camera_embed_dim).planes

\* C1: a forward call whose image batch size differs from that of
\* source_camera, render_cameras, render_anchors or render_bg_colors ends in
\* an AssertionError, and no submodule has been invoked when it is raised.
C1_BatchMismatchFatal ==
    (inp # NoInput /\ \E f \in OtherInputs : inp[f] # inp.image)
        => /\ pc = "error" /\ err = "AssertionError"
           /\ calls = <<>>
           /\ result = NoResult

C1_Witness ==
    /\ inp.image = 2 /\ inp.render_bg_colors = 1
    /\ pc = "error" /\ err = "AssertionError" /\ calls = <<>>

\* C2: with neither fusion strategy selected (whatever model_lora_rank is), a
\* call that supplies a back image never reaches the fusion step of forward:
\* the missing strategy has been reported when the model was constructed.
C2_NoStrategyNeverReachesFusion ==
    (~model.conv_fuse /\ ~model.swin_ca_fuse /\ inp.image_back # 0)
        => /\ pc \notin {"flipped", "fused"}
           /\ err # "UnboundLocalError"

\* C3: in the dual-view path, before fusion, the back triplane is the one
\* forward_planes returned with plane 0 (XY) mirrored on rows and columns,
\* plane 1 (XZ) on columns only, plane 2 (YZ) on rows only; every value of it
\* is a distinct marker, so each sits at its mirrored position and nowhere
\* else; the front triplane is as forward_planes returned it.
C3_BackPlanesMirrored ==
    pc = "flipped" =>
        LET raw == RawPlanes("image_back")
            N == raw.shape[1]
            D == raw.shape[3]
            H == raw.shape[4]
            W == raw.shape[5]
            st == Strides(raw.shape)
            Back(idx) == back_planes.data[Dot(st, idx, 1) + 1]
            Raw(idx) == raw.data[Dot(st, idx, 1) + 1]
        IN  /\ back_planes.ok /\ back_planes.shape = raw.shape
            /\ \A n \in 0..(N - 1), d \in 0..(D - 1), r \in 0..(H - 1), c \in 0..(W - 1) :
                 /\ Back(<<n, 0, d, H - 1 - r, W - 1 - c>>) = Raw(<<n, 0, d, r, c>>)
                 /\ Back(<<n, 1, d, r, W - 1 - c>>) = Raw(<<n, 1, d, r, c>>)
                 /\ Back(<<n, 2, d, H - 1 - r, c>>) = Raw(<<n, 2, d, r, c>>)
            /\ Cardinality({raw.data[k] : k \in 1..Len(raw.data)}) = Len(raw.data)
            /\ front_planes = RawPlanes("image")

C3_Witness ==
    /\ pc = "flipped" /\ inp.image = 2
    /\ back_planes.shape[4] = 4
    /\ At(back_planes, <<1, 1, 0, 2, 3>>) = At(RawPlanes("image_back"), <<1, 1, 0, 2, 0>>)
    /\ At(back_planes, <<1, 2, 0, 3, 1>>) = At(RawPlanes("image_back"), <<1, 2, 0, 0, 1>>)

TopFns == {"forward_planes", "flip", "synthesizer"} \cup FuseModules

IsTop(e) == e.fn \in TopFns

IsPrefix(a, b) == Len(a) <= Len(b) /\ a = SubSeq(b, 1, Len(a))

\* the order of calls the dispatch of forward prescribes
Dispatch ==
    IF inp.image_back = 0
    THEN { << FPCall("image"), Call("synthesizer", <<"planes">>) >> }
    ELSE { << FPCall("image"), FPCall("image_back"), Call("flip", <<"back_planes">>),
              Call(f, <<"front_planes", "back_planes">>),
              Call("synthesizer", <<"planes">>) >> : f \in FuseModules }

\* C4: after validation, forward calls forward_planes once on
\* (image, source_camera) when image_back is absent, with no flip and no
\* fusion; twice, on (image, source_camera) then (image_back, source_camera),
\* then the flip, then the fusion, when it is present; the synthesizer is
\* called once and last, on the triplane the call returns as 'planes'.  A call
\* that raises has made a prefix of these calls.
C4_DispatchOrder ==
    /\ pc # "idle" => \E e \in Dispatch : IsPrefix(SelectSeq(calls, IsTop), e)
    /\ pc = "returned" =>
         /\ SelectSeq(calls, IsTop) \in Dispatch
         /\ calls[Len(calls)].fn = "synthesizer"
         /\ synth_in = planes /\ result.planes = synth_in
         /\ inp.image_back = 0 => planes = RawPlanes("image") /\ applied = {}
         /\ inp.image_back # 0 => ~planes.dense /\ Cardinality(applied) = 1

C4_Witness ==
    /\ pc = "returned" /\ inp.image_back = 2 /\ applied = {"swin"}
    /\ result.planes.shape = <<2, 3, 2, 4, 4>>

\* C5: the fused triplane either strategy produces has the shape (N,3,D,H,W)
\* of the two triplanes it fuses; on the way the convolutional path has the
\* shapes (N,3,2D,H,W), (3N,2D,H,W), 4D, 4D and D channels at H x W, and the
\* cross-attention path has token sequences of shape (3N, H*W, D).
C5_FusionKeepsShape ==
    (pc = "fused" /\ planes.ok) =>
        LET N == inp.image
            D == model.triplane_dim
            H == 2 * model.triplane_low_res
            W == 2 * model.triplane_low_res
            c2 == <<3 * N, 2 * D, H, W>>
            c4 == <<3 * N, 4 * D, H, W>>
            tk == <<3 * N, H * W, D>>
        IN  /\ planes.shape = <<N, 3, D, H, W>>
            /\ applied = {"conv"} =>
                 stages = << <<N, 3, 2 * D, H, W>>, c2, c4, c4, c4, c4, c4, c4,
                             <<3 * N, D, H, W>>, <<N, 3, D, H, W>> >>
            /\ applied = {"swin"} => stages = << tk, tk, tk, <<N, 3, D, H, W>> >>

C5_Witness ==
    /\ pc = "fused" /\ applied = {"conv"} /\ planes.ok
    /\ inp.image = 2 /\ model.triplane_dim = 2 /\ model.triplane_low_res = 2

\* C6: forward_planes on a valid pair (encoder and camera-embedder outputs of
\* the configured widths, equal batch sizes) raises nothing, and what it
\* returns has the shape (N, 3, triplane_dim, 2*low_res, 2*low_res).
C6_PlanesShape ==
    /\ FPDone => LastPlanes.shape = <<inp[LastImg], 3, model.triplane_dim,
                                      2 * model.triplane_low_res,
                                      2 * model.triplane_low_res>>
    /\ (pc = "error" /\ calls # <<>> /\ calls[Len(calls)].fn \in FPSubmodules) =>
         ~ /\ image_feats[3] = model.encoder_feat_dim
           /\ camera_embeddings # <<>>
           /\ camera_embeddings[2] = model.camera_embed_dim
           /\ image_feats[1] = camera_embeddings[1]

C6_Witness ==
    /\ pc = "back_done" /\ inp.image = 2
    /\ back_planes.shape = <<2, 3, 2, 4, 4>>

\* C7: no constructed model holds both fusion modules, and every dual-view
\* call that has passed the fusion branch applied exactly one of the two
\* strategies.
C7_ExactlyOneStrategy ==
    /\ model.ok => ~(FuseModules \subseteq model.modules)
    /\ (pc = "fused" \/ (pc = "error" /\ "flip" \in Fns(calls))) =>
         Cardinality(applied) = 1

\* C8: a model configured with a fusion mode has the encoder and the camera
\* embedder frozen by __init__ and the other four freeze flags as their
\* constructors left them, and no forward call changes the model.
C8_FreezeFixedAtConstruction ==
    /\ [](model.ok /\ (model.conv_fuse \/ model.swin_ca_fuse) =>
            /\ model.frozen["encoder"] /\ model.frozen["camera_embedder"]
            /\ ~model.frozen["pos_embed"] /\ ~model.frozen["upsampler"]
            /\ ~model.frozen["synthesizer"]
            /\ model.frozen["transformer"] = (model.model_lora_rank > 0))
    /\ [][model' = model]_vars

\* C9: the grid fed to the upsampler at stacked index i*N + n holds, at
\* (h, w), the tokens of sample n at sequence position
\* i*low_res^2 + h*low_res + w, and the grid the upsampler produced at
\* stacked index i*N + n is returned at [n, i].
C9_PlaneSampleOrderKept ==
    FPDone =>
        LET N == inp[LastImg]
            L == model.triplane_low_res
            T == model.transformer_dim
            D == model.triplane_dim
            su == Strides(<<3 * N, T, L, L>>)
            sp == Strides(<<N, 3, D, 2 * L, 2 * L>>)
            UpIn(idx) == up_in.data[Dot(su, idx, 1) + 1]
            Out(idx) == LastPlanes.data[Dot(sp, idx, 1) + 1]
        IN  /\ up_in.shape = <<3 * N, T, L, L>>
            /\ LastPlanes.shape = <<N, 3, D, 2 * L, 2 * L>>
            /\ \A n \in 0..(N - 1), i \in 0..2, d \in 0..(T - 1),
                  h \in 0..(L - 1), w \in 0..(L - 1) :
                 UpIn(<<i * N + n, d, h, w>>) =
                     [op |-> "transformer", img |-> LastImg,
                      at |-> <<n, i * L * L + h * L + w, d>>]
            /\ \A n \in 0..(N - 1), i \in 0..2, c \in 0..(D - 1),
                  y \in 0..(2 * L - 1), x \in 0..(2 * L - 1) :
                 Out(<<n, i, c, y, x>>) =
                     [op |-> "upsampler", img |-> LastImg,
                      at |-> <<i * N + n, c, y, x>>]

C9_Witness ==
    /\ pc = "front_done" /\ inp.image = 2 /\ model.triplane_low_res = 2
    /\ At(up_in, <<5, 1, 1, 0>>).at = <<1, 10, 1>>
    /\ At(front_planes, <<1, 2, 0, 3, 1>>).at = <<5, 0, 3, 1>>

\* C10: a dual-view call whose image_back batch size differs from that of
\* image (the other inputs agreeing) raises an AssertionError in its second
\* forward_planes call; it reaches neither the flip, nor the fusion, nor the
\* synthesizer, and returns nothing.
C10_BackBatchMismatchFatal ==
    (/\ inp.image_back # 0 /\ inp.image_back # inp.image
     /\ \A f \in OtherInputs : inp[f] = inp.image)
        => /\ pc \notin {"back_done", "flipped", "fused", "returned"}
           /\ Fns(calls) \cap ({"flip", "synthesizer"} \cup FuseModules) = {}
           /\ result = NoResult
           /\ (\E k \in 1..Len(calls) : calls[k] = FPCall("image_back"))
                => pc = "error" /\ err = "AssertionError"

C10_Witness ==
    /\ inp.image = 1 /\ inp.image_back = 2 /\ inp.source_camera = 1
    /\ pc = "error" /\ err = "AssertionError"
    /\ calls # <<>> /\ calls[Len(calls)] = Call("camera_embedder", <<"source_camera">>)
    /\ image_feats = <<2, EncTokens, model.encoder_feat_dim>>
    /\ camera_embeddings = <<1, model.camera_embed_dim>>

====
